---------------------------- MODULE Spec2Model ----------------------------
(***************************************************************************)
(* Simako Node.js backend (src/nodejs/server.js): the Express handlers of  *)
(* the messages and sim_cards collections, over a MongoDB store.           *)
(*                                                                         *)
(* The store is the pair of collections (messages, sim_cards). Every       *)
(* single store operation (save, find, countDocuments, findOne,            *)
(* findByIdAndUpdate) is atomic; a handler that awaits two store           *)
(* operations is two steps, and the steps of handlers running on different *)
(* connections interleave freely.                                          *)
(***************************************************************************)
EXTENDS Naturals, Integers, Sequences, FiniteSets, TLC

VARIABLES
    messages,   \* the messages collection, in insertion (natural) order
    sim_cards,  \* the sim_cards collection, in insertion order
    now,        \* the server clock, as read by Date.now / new Date()
    conn,       \* per connection: the request in hand, the handler's position
                \* and locals, and the response once sent
    hits,       \* the rate limiter's memory: per client address, the requests
                \* to /api/ paths that it has counted in the address's
                \* current window
    startup     \* the process and its store connection: "connecting" while
                \* mongoose.connect is pending, "connected", or "exited"

vars == <<messages, sim_cards, now, conn, hits, startup>>

----------------------------------------------------------------------------
(* Bounds of the model *)

\* the clock runs from 0 to MaxTime
MaxTime == 1
\* POST /api/messages is issued while the collection holds fewer records
MaxMsgs == 2

----------------------------------------------------------------------------
(* Values *)

\* a key that the JSON body / query string / document does not carry
Absent == "<absent>"
\* a Date-valued or numeric key that is not carried
Unset == -1
\* an optional object: <<>> when the key is missing, <<obj>> when present;
\* an object is a set of <<key, value>> pairs
NoObject == <<>>
EmptyObject == {}

\* a path parameter that is not a 24-hex-digit ObjectId string
MalformedId == 0

DefaultLimit == 100
DefaultSkip == 0

Min(a, b) == IF a <= b THEN a ELSE b

----------------------------------------------------------------------------
(* Request bodies *)

MsgBody(sim, type, from, to, message, ts, meta, extra) ==
    [sim_id |-> sim, type |-> type, from |-> from, to |-> to,
     message |-> message, timestamp |-> ts, metadata |-> meta, extra |-> extra]

\* bodies that messageValidation accepts
\* (one carries every key, the other only the required ones and an empty
\* metadata object)
ValidMessageBodies ==
    { MsgBody("SIM001", "sms", "+111", "+222", "hello", 1,
              <<{<<"rssi", "-70">>}>>, {}),
      MsgBody("SIM002", "call", "+333", Absent, "ring", Unset,
              <<EmptyObject>>, {}) }

\* bodies that it rejects: a required key missing or empty, a type outside
\* the enumeration, a key the schema does not know
InvalidMessageBodies ==
    { MsgBody(Absent, "sms", "+111", Absent, "hello", Unset, NoObject, {}),
      MsgBody("SIM001", Absent, "+111", Absent, "hello", Unset, NoObject, {}),
      MsgBody("SIM001", "sms", Absent, Absent, "hello", Unset, NoObject, {}),
      MsgBody("SIM001", "sms", "+111", Absent, Absent, Unset, NoObject, {}),
      MsgBody("SIM001", "mms", "+111", Absent, "hello", Unset, NoObject, {}),
      MsgBody("SIM001", "sms", "+111", Absent, "", 1, NoObject, {}),
      MsgBody("SIM001", "sms", "+111", Absent, "hello", Unset, NoObject,
              {"processed"}) }

MessageBodies == ValidMessageBodies \cup InvalidMessageBodies

----------------------------------------------------------------------------
(* Joi validation *)

NoError == ""

\* Joi.string(): when there, a non-empty string
OptionalString(key, v) ==
    IF v = "" THEN "\"" \o key \o "\" is not allowed to be empty" ELSE NoError

\* mutant: required() forgotten, the key may be missing
RequiredStringNotRequired(key, v) == OptionalString(key, v)

\* Joi.string().required(): the key is there and is a non-empty string
RequiredString(key, v) ==
    IF v = Absent THEN "\"" \o key \o "\" is required"
    ELSE IF v = "" THEN "\"" \o key \o "\" is not allowed to be empty"
    ELSE NoError

\* the first error of a list of checks (abortEarly)
RECURSIVE FirstError(_)
FirstError(errs) ==
    IF errs = <<>> THEN NoError
    ELSE IF Head(errs) # NoError THEN Head(errs)
    ELSE FirstError(Tail(errs))

MessageTypes == {"sms", "call"}

\* messageValidation.validate(req.body).error: the message of the first
\* failing key, keys in schema order, unknown keys last
\* mutant: keys that the schema does not name are let through
MessageValidationErrorUnknownKeys(b) ==
    FirstError(<<
        RequiredString("sim_id", b.sim_id),
        IF b.type \notin {Absent, ""} /\ b.type \notin MessageTypes
            THEN "\"type\" must be one of [sms, call]"
            ELSE RequiredString("type", b.type),
        RequiredString("from", b.from),
        OptionalString("to", b.to),
        RequiredString("message", b.message) >>)

MessageValidationError(b) ==
    FirstError(<<
        RequiredString("sim_id", b.sim_id),
        IF b.type \notin {Absent, ""} /\ b.type \notin MessageTypes
            THEN "\"type\" must be one of [sms, call]"
            ELSE RequiredString("type", b.type),
        RequiredString("from", b.from),
        OptionalString("to", b.to),
        RequiredString("message", b.message),
        IF b.extra # {} THEN "\"" \o (CHOOSE k \in b.extra : TRUE)
                              \o "\" is not allowed"
        ELSE NoError >>)

----------------------------------------------------------------------------
(* Connections *)

Clients == {"c1", "c2"}

Idle == [pc |-> "idle"]

\* a handler that has answered: the request it served and its response
Done(req, status, body) ==
    [pc |-> "done", req |-> req, resp |-> [status |-> status, body |-> body]]

\* a new request is read on a connection that has none in hand
Free(c) == conn[c].pc \in {"idle", "done"}

----------------------------------------------------------------------------
(* Message documents *)

\* mongoose's minimize: an empty object is not stored and not serialised
Minimize(obj) == IF obj = <<EmptyObject>> THEN NoObject ELSE obj

\* the _id mongoose gives a new document: distinct from every stored one
NewObjectId(docs) == Len(docs) + 1

\* mutant: the payload's timestamp ignored, the server's time always used
NewMessageServerTime(value, id, t) ==
    [_id |-> id, sim_id |-> value.sim_id, type |-> value.type,
     from |-> value.from, to |-> value.to, message |-> value.message,
     timestamp |-> t,
     processed |-> "processed" \in value.extra,
     processed_at |-> IF "processed_at" \in value.extra THEN 0 ELSE Unset,
     metadata |-> Minimize(value.metadata),
     created_at |-> IF "created_at" \in value.extra THEN 0 ELSE t]

\* new Message({...value, timestamp: value.timestamp || new Date()}) with the
\* schema's defaults, as saved. The document takes every path of the schema
\* that the value carries: a processed key carries true, a date key the
\* date 0; a path that the value does not carry gets the schema's default
NewMessage(value, id, t) ==
    [_id |-> id,
     sim_id |-> value.sim_id,
     type |-> value.type,
     from |-> value.from,
     to |-> value.to,
     message |-> value.message,
     timestamp |-> IF value.timestamp # Unset THEN value.timestamp ELSE t,
     processed |-> "processed" \in value.extra,
     processed_at |-> IF "processed_at" \in value.extra THEN 0 ELSE Unset,
     metadata |-> Minimize(value.metadata),
     created_at |-> IF "created_at" \in value.extra THEN 0 ELSE t]

\* mutant: a message of a SIM that is not registered is refused
PostMessageRegisteredOnly(c, b) ==
    /\ Free(c)
    /\ LET req == [route |-> "POST /api/messages", body |-> b]
           error == MessageValidationError(b)
           known == {sim_cards[i].sim_id : i \in 1..Len(sim_cards)}
       IN IF error # NoError \/ b.sim_id \notin known
          THEN /\ conn' = [conn EXCEPT ![c] = Done(req, 400, [error |-> error])]
               /\ UNCHANGED messages
          ELSE LET saved == NewMessage(b, NewObjectId(messages), now)
               IN /\ messages' = Append(messages, saved)
                  /\ conn' = [conn EXCEPT ![c] =
                         Done(req, 201, [status |-> "ok",
                                         message_id |-> saved._id,
                                         received |-> saved])]
    /\ UNCHANGED <<sim_cards, now>>

\* mutant: the collection keeps the newest message only
PostMessageKeepsNewest(c, b) ==
    /\ Free(c)
    /\ LET req == [route |-> "POST /api/messages", body |-> b]
           error == MessageValidationError(b)
       IN IF error # NoError
          THEN /\ conn' = [conn EXCEPT ![c] = Done(req, 400, [error |-> error])]
               /\ UNCHANGED messages
          ELSE LET saved == NewMessage(b, NewObjectId(messages), now)
               IN /\ messages' = <<saved>>
                  /\ conn' = [conn EXCEPT ![c] =
                         Done(req, 201, [status |-> "ok",
                                         message_id |-> saved._id,
                                         received |-> saved])]
    /\ UNCHANGED <<sim_cards, now>>

\* POST /api/messages
PostMessage(c, b) ==
    /\ Free(c)
    /\ LET req == [route |-> "POST /api/messages", body |-> b]
           error == MessageValidationError(b)
       IN IF error # NoError
          THEN /\ conn' = [conn EXCEPT ![c] = Done(req, 400, [error |-> error])]
               /\ UNCHANGED messages
          ELSE LET saved == NewMessage(b, NewObjectId(messages), now)
               IN /\ messages' = Append(messages, saved)
                  /\ conn' = [conn EXCEPT ![c] =
                         Done(req, 201, [status |-> "ok",
                                         message_id |-> saved._id,
                                         received |-> saved])]
    /\ UNCHANGED <<sim_cards, now>>

\* mutant: the update sets the flag and forgets the stamp
MarkProcessedNoStamp(docs, id, t) ==
    [i \in 1..Len(docs) |->
        IF docs[i]._id = id THEN [docs[i] EXCEPT !.processed = TRUE]
        ELSE docs[i]]

\* mutant: the update stamps the message and forgets the flag
MarkProcessedStampOnly(docs, id, t) ==
    [i \in 1..Len(docs) |->
        IF docs[i]._id = id THEN [docs[i] EXCEPT !.processed_at = t]
        ELSE docs[i]]

\* mutant: only a message not yet processed is stamped
MarkProcessedOnce(docs, id, t) ==
    [i \in 1..Len(docs) |->
        IF docs[i]._id = id /\ ~docs[i].processed
        THEN [docs[i] EXCEPT !.processed = TRUE, !.processed_at = t]
        ELSE docs[i]]

\* mutant: the update flips the flag
MarkProcessedToggle(docs, id, t) ==
    [i \in 1..Len(docs) |->
        IF docs[i]._id = id
        THEN [docs[i] EXCEPT !.processed = ~docs[i].processed,
                             !.processed_at = t]
        ELSE docs[i]]

\* mutant: the update's filter forgotten, every message is updated
MarkProcessedAll(docs, id, t) ==
    [i \in 1..Len(docs) |->
        [docs[i] EXCEPT !.processed = TRUE, !.processed_at = t]]

\* Message.findByIdAndUpdate(messageId, {processed: true, processed_at: new
\* Date()}, {new: true}): the updated collection
MarkProcessed(docs, id, t) ==
    [i \in 1..Len(docs) |->
        IF docs[i]._id = id
        THEN [docs[i] EXCEPT !.processed = TRUE, !.processed_at = t]
        ELSE docs[i]]

\* the document with this _id, as a set (empty when there is none)
ById(docs, id) == {docs[i] : i \in {j \in 1..Len(docs) : docs[j]._id = id}}

\* PUT /api/messages/:messageId/processed
PutProcessed(c, id) ==
    /\ Free(c)
    /\ LET req == [route |-> "PUT /api/messages/:messageId/processed",
                   messageId |-> id]
       IN IF id = MalformedId
          THEN \* the cast of messageId to ObjectId throws: the catch branch
               /\ conn' = [conn EXCEPT ![c] =
                      Done(req, 500, [error |-> "Internal server error"])]
               /\ UNCHANGED messages
          ELSE IF ById(messages, id) = {}
          THEN /\ conn' = [conn EXCEPT ![c] =
                      Done(req, 404, [error |-> "Message not found"])]
               /\ UNCHANGED messages
          ELSE /\ messages' = MarkProcessed(messages, id, now)
               /\ conn' = [conn EXCEPT ![c] =
                      Done(req, 200,
                           [status |-> "ok",
                            message |-> "Message marked as processed",
                            data |-> CHOOSE m \in ById(messages', id) : TRUE])]
    /\ UNCHANGED <<sim_cards, now>>

----------------------------------------------------------------------------
(* GET /api/messages *)

\* a query-string value that is there and not empty
Truthy(v) == v \notin {Absent, ""}

\* const query = {}; if (sim_id) query.sim_id = sim_id; if (type) ...
BuildQuery(q) ==
    [sim_id |-> IF Truthy(q.sim_id) THEN q.sim_id ELSE Absent,
     type |-> IF Truthy(q.type) THEN q.type ELSE Absent]

\* a document matches a query when it agrees on every key the query carries
Matches(m, query) ==
    /\ (query.sim_id # Absent => m.sim_id = query.sim_id)
    /\ (query.type # Absent => m.type = query.type)

\* Message.find(query), in natural order
Find(docs, query) ==
    LET Test(m) == Matches(m, query) IN SelectSeq(docs, Test)

\* mutant: the count ignores the filter
CountAllDocuments(docs, query) == Len(docs)

\* Message.countDocuments(query)
CountDocuments(docs, query) == Len(Find(docs, query))

\* every arrangement of the documents at positions I
RECURSIVE Arrangements(_, _)
Arrangements(docs, I) ==
    IF I = {} THEN {<<>>}
    ELSE UNION {{<<docs[i]>> \o rest : rest \in Arrangements(docs, I \ {i})}
                : i \in I}

\* .sort({timestamp: -1}): the orders the store may return, every
\* arrangement of the documents at positions I with timestamps
\* non-increasing (the order of documents with equal timestamps is the
\* store's choice): the later half of the timestamps' range, sorted, then
\* the earlier half, sorted
RECURSIVE SortOrders(_, _)
SortOrders(docs, I) ==
    IF I = {} THEN {<<>>}
    ELSE LET stamps == {docs[i].timestamp : i \in I}
             first == CHOOSE t \in stamps : \A u \in stamps : t <= u
             last == CHOOSE t \in stamps : \A u \in stamps : u <= t
             mid == (first + last) \div 2
         IN IF first = last THEN Arrangements(docs, I)
            ELSE {later \o earlier :
                    later \in SortOrders(docs,
                        {i \in I : docs[i].timestamp > mid}),
                    earlier \in SortOrders(docs,
                        {i \in I : docs[i].timestamp <= mid})}

\* mutant: no sort, the documents come in natural order
SortNatural(docs) == {docs}

SortByTimestampDesc(docs) == SortOrders(docs, 1..Len(docs))

\* mutant: skip is off by one
SkipOneMore(docs, n) == SubSeq(docs, n + 2, Len(docs))

\* .skip(n)
SkipDocs(docs, n) == SubSeq(docs, n + 1, Len(docs))

\* .limit(n): a limit of 0 is no limit
LimitDocs(docs, n) ==
    IF n = 0 THEN docs ELSE SubSeq(docs, 1, Min(n, Len(docs)))

\* const {limit = 100, skip = 0} = req.query, then parseInt
ParsedLimit(q) == IF q.limit = Unset THEN DefaultLimit ELSE q.limit
ParsedSkip(q) == IF q.skip = Unset THEN DefaultSkip ELSE q.skip

\* the pages Message.find(query).sort().skip().limit() may return
FindPage(docs, q) ==
    {LimitDocs(SkipDocs(sorted, ParsedSkip(q)), ParsedLimit(q)) :
        sorted \in SortByTimestampDesc(Find(docs, BuildQuery(q)))}

Query(sim, type, limit, skip) ==
    [sim_id |-> sim, type |-> type, limit |-> limit, skip |-> skip]

\* query strings: each filter alone, both, none, with the default page;
\* pages of the unfiltered and of a filtered list
Queries ==
    { Query(Absent, Absent, Unset, Unset),
      Query("SIM001", Absent, Unset, Unset),
      Query(Absent, "sms", Unset, Unset),
      Query("SIM001", "sms", Unset, Unset),
      Query("SIM001", "call", Unset, Unset),
      Query(Absent, Absent, 1, Unset),
      Query(Absent, Absent, 0, Unset),
      Query(Absent, Absent, Unset, 1),
      Query(Absent, Absent, 1, 1),
      Query("SIM001", "", 2, 1) }

\* the handler up to its first await: the page query
GetMessagesFind(c, q) ==
    /\ Free(c)
    /\ \E page \in FindPage(messages, q) :
        conn' = [conn EXCEPT ![c] =
            [pc |-> "count",
             req |-> [route |-> "GET /api/messages", query |-> q],
             messages |-> page]]
    /\ UNCHANGED <<messages, sim_cards, now>>

\* the rest of the handler: the count query, then the response
GetMessagesCount(c) ==
    /\ conn[c].pc = "count"
    /\ LET total == CountDocuments(messages, BuildQuery(conn[c].req.query))
       IN conn' = [conn EXCEPT ![c] =
            Done(conn[c].req, 200,
                 [messages |-> conn[c].messages,
                  count |-> Len(conn[c].messages),
                  total |-> total])]
    /\ UNCHANGED <<messages, sim_cards, now>>

----------------------------------------------------------------------------
(* SIM cards *)

\* the sim_cards collection holds at most this many records
MaxSims == 3

SimBody(sim, phone, carrier, active, extra) ==
    [sim_id |-> sim, phone_number |-> phone, carrier |-> carrier,
     is_active |-> active, extra |-> extra]

ValidSimBodies ==
    { SimBody("SIM001", "+111", "Orange", "false", {}),
      SimBody("SIM001", "+999", Absent, Absent, {}),
      SimBody("SIM002", "+333", Absent, Absent, {}) }

InvalidSimBodies ==
    { SimBody(Absent, "+111", Absent, Absent, {}),
      SimBody("SIM001", Absent, Absent, Absent, {}) }

SimBodies == ValidSimBodies \cup InvalidSimBodies

\* mutant: phone_number not required
SimCardValidationErrorLax(b) ==
    FirstError(<<
        RequiredString("sim_id", b.sim_id),
        OptionalString("phone_number", b.phone_number),
        OptionalString("carrier", b.carrier),
        IF b.is_active \notin {Absent, "true", "false"}
            THEN "\"is_active\" must be a boolean" ELSE NoError,
        IF b.extra # {} THEN "\"" \o (CHOOSE k \in b.extra : TRUE)
                              \o "\" is not allowed"
        ELSE NoError >>)

\* simCardValidation.validate(req.body).error
SimCardValidationError(b) ==
    FirstError(<<
        RequiredString("sim_id", b.sim_id),
        RequiredString("phone_number", b.phone_number),
        OptionalString("carrier", b.carrier),
        IF b.is_active \notin {Absent, "true", "false"}
            THEN "\"is_active\" must be a boolean" ELSE NoError,
        IF b.extra # {} THEN "\"" \o (CHOOSE k \in b.extra : TRUE)
                              \o "\" is not allowed"
        ELSE NoError >>)

\* new SimCard(value) with the schema's defaults
NewSimCard(value, id, t) ==
    [_id |-> id,
     sim_id |-> value.sim_id,
     phone_number |-> value.phone_number,
     carrier |-> value.carrier,
     is_active |-> IF value.is_active = Absent THEN TRUE
                   ELSE value.is_active = "true",
     created_at |-> t,
     last_seen |-> t]

\* mutant: the lookup finds nothing
FindOneNothing(cards, sim) == {}

\* SimCard.findOne({sim_id}): the records found, as a set
FindOne(cards, sim) ==
    {cards[i] : i \in {j \in 1..Len(cards) : cards[j].sim_id = sim}}

\* mutant: no unique index on sim_id
DuplicateKeyNoIndex(cards, card) == FALSE

\* the unique index on sim_id (unique: true) refuses a second record
DuplicateKey(cards, card) == FindOne(cards, card.sim_id) # {}

\* the handler up to its first await: validation, then the lookup
PostSimCardLookup(c, b) ==
    /\ Free(c)
    /\ LET req == [route |-> "POST /api/sim-cards", body |-> b]
           error == SimCardValidationError(b)
       IN IF error # NoError
          THEN conn' = [conn EXCEPT ![c] = Done(req, 400, [error |-> error])]
          ELSE IF FindOne(sim_cards, b.sim_id) # {}
          THEN conn' = [conn EXCEPT ![c] =
                   Done(req, 409, [error |-> "SIM card already registered"])]
          ELSE conn' = [conn EXCEPT ![c] = [pc |-> "save", req |-> req]]
    /\ UNCHANGED <<messages, sim_cards, now>>

\* the rest of the handler: the insert, then the response
PostSimCardSave(c) ==
    /\ conn[c].pc = "save"
    /\ Len(sim_cards) < MaxSims
    /\ LET card == NewSimCard(conn[c].req.body, NewObjectId(sim_cards), now)
       IN IF DuplicateKey(sim_cards, card)
          THEN \* save() rejects with the duplicate key error: the catch branch
               /\ conn' = [conn EXCEPT ![c] =
                      Done(conn[c].req, 500, [error |-> "Internal server error"])]
               /\ UNCHANGED sim_cards
          ELSE /\ sim_cards' = Append(sim_cards, card)
               /\ conn' = [conn EXCEPT ![c] =
                      Done(conn[c].req, 201,
                           [status |-> "ok", sim_card |-> card])]
    /\ UNCHANGED <<messages, now>>

\* mutant: the server remembers what it sent on a connection and does not
\* send it again
GetSimCardsNotModified(c) ==
    /\ Free(c)
    /\ conn' = [conn EXCEPT ![c] =
           IF conn[c].pc = "done" /\ conn[c].req = [route |-> "GET /api/sim-cards"]
           THEN Done([route |-> "GET /api/sim-cards"], 304, [text |-> ""])
           ELSE Done([route |-> "GET /api/sim-cards"], 200,
                     [sim_cards |-> sim_cards])]
    /\ UNCHANGED <<messages, sim_cards, now>>

\* GET /api/sim-cards
GetSimCards(c) ==
    /\ Free(c)
    /\ conn' = [conn EXCEPT ![c] =
           Done([route |-> "GET /api/sim-cards"], 200,
                [sim_cards |-> sim_cards])]
    /\ UNCHANGED <<messages, sim_cards, now>>

----------------------------------------------------------------------------
(* SimakoHost *)

SmsBody(sim, to, message) == [sim_id |-> sim, to |-> to, message |-> message]

\* request bodies: the three keys there (for a registered SIM and for one
\* that is not), one of them missing, one of them an empty string
SmsBodies ==
    { SmsBody("SIM001", "+222", "hello"),
      SmsBody("SIM009", "+222", "hello"),
      SmsBody(Absent, "+222", "hello"),
      SmsBody("SIM001", Absent, "hello"),
      SmsBody("SIM001", "+222", Absent),
      SmsBody("SIM001", "+222", "") }

\* mutant: the message is not looked at
SmsFieldsMissingButMessage(b) == ~Truthy(b.sim_id) \/ ~Truthy(b.to)

\* !sim_id || !to || !message
SmsFieldsMissing(b) ==
    ~Truthy(b.sim_id) \/ ~Truthy(b.to) \/ ~Truthy(b.message)

\* POST /api/simakohost/send-sms
SendSms(c, b) ==
    /\ Free(c)
    /\ LET req == [route |-> "POST /api/simakohost/send-sms", body |-> b]
       IN IF SmsFieldsMissing(b)
          THEN conn' = [conn EXCEPT ![c] =
                   Done(req, 400,
                        [error |->
                            "Missing required fields: sim_id, to, message"])]
          ELSE conn' = [conn EXCEPT ![c] =
                   Done(req, 202,
                        [status |-> "ok",
                         message |-> "SMS queued for sending",
                         request |-> [sim_id |-> b.sim_id, to |-> b.to,
                                      message |-> b.message,
                                      status |-> "queued",
                                      created_at |-> now]])]
    /\ UNCHANGED <<messages, sim_cards, now>>

----------------------------------------------------------------------------
(* Store failures: an awaited store call rejects, the handler's catch       *)
(* branch answers. A write that is reported as failed may or may not have  *)
(* reached the collection.                                                 *)

\* res.status(500).json({error: 'Internal server error'})
ServerError(req) == Done(req, 500, [error |-> "Internal server error"])

\* POST /api/messages, message.save() rejects
PostMessageFails(c, b) ==
    /\ Free(c)
    /\ MessageValidationError(b) = NoError
    /\ messages' \in {messages,
                      Append(messages,
                             NewMessage(b, NewObjectId(messages), now))}
    /\ conn' = [conn EXCEPT ![c] =
           ServerError([route |-> "POST /api/messages", body |-> b])]
    /\ UNCHANGED <<sim_cards, now>>

\* PUT /api/messages/:messageId/processed, findByIdAndUpdate rejects
PutProcessedFails(c, id) ==
    /\ Free(c)
    /\ id # MalformedId
    /\ messages' \in {messages, MarkProcessed(messages, id, now)}
    /\ conn' = [conn EXCEPT ![c] =
           ServerError([route |-> "PUT /api/messages/:messageId/processed",
                        messageId |-> id])]
    /\ UNCHANGED <<sim_cards, now>>

\* mutant: the page query's failure is swallowed, the handler goes on to the
\* count with an empty page
GetMessagesFindFailsGoesOn(c, q) ==
    /\ Free(c)
    /\ conn' = [conn EXCEPT ![c] =
           [pc |-> "count",
            req |-> [route |-> "GET /api/messages", query |-> q],
            messages |-> <<>>]]
    /\ UNCHANGED <<messages, sim_cards, now>>

\* GET /api/messages, the page query rejects
GetMessagesFindFails(c, q) ==
    /\ Free(c)
    /\ conn' = [conn EXCEPT ![c] =
           ServerError([route |-> "GET /api/messages", query |-> q])]
    /\ UNCHANGED <<messages, sim_cards, now>>

\* GET /api/messages, countDocuments rejects
GetMessagesCountFails(c) ==
    /\ conn[c].pc = "count"
    /\ conn' = [conn EXCEPT ![c] = ServerError(conn[c].req)]
    /\ UNCHANGED <<messages, sim_cards, now>>

\* GET /api/sim-cards, find rejects
GetSimCardsFails(c) ==
    /\ Free(c)
    /\ conn' = [conn EXCEPT ![c] = ServerError([route |-> "GET /api/sim-cards"])]
    /\ UNCHANGED <<messages, sim_cards, now>>

\* POST /api/sim-cards, findOne rejects
PostSimCardLookupFails(c, b) ==
    /\ Free(c)
    /\ SimCardValidationError(b) = NoError
    /\ conn' = [conn EXCEPT ![c] =
           ServerError([route |-> "POST /api/sim-cards", body |-> b])]
    /\ UNCHANGED <<messages, sim_cards, now>>

\* POST /api/sim-cards, save() rejects
PostSimCardSaveFails(c) ==
    /\ conn[c].pc = "save"
    /\ LET card == NewSimCard(conn[c].req.body, NewObjectId(sim_cards), now)
       IN sim_cards' \in
            {sim_cards} \cup
            (IF ~DuplicateKey(sim_cards, card) /\ Len(sim_cards) < MaxSims
             THEN {Append(sim_cards, card)} ELSE {})
    /\ conn' = [conn EXCEPT ![c] = ServerError(conn[c].req)]
    /\ UNCHANGED <<messages, now>>

----------------------------------------------------------------------------
(* Middleware and routing: cors, express.json, the rate limiter on /api/,  *)
(* the routes, the error middleware, the 404 handler                       *)

\* max: the requests the limiter lets through in one window
RateLimitMax == 100

\* client addresses, and the address each connection comes from
Addresses == {"a1", "a2"}

\* mutant: one count for all clients
AddressOfAnyone(c) == "a1"

AddressOf(c) == IF c = "c3" THEN "a2" ELSE "a1"

\* requests are followed until the count is this far beyond max
MaxOver == 1

\* the routes, a path as the sequence of its segments
RouteTable ==
    { <<"GET", <<"health">>>>,
      <<"POST", <<"api", "messages">>>>,
      <<"GET", <<"api", "messages">>>>,
      <<"PUT", <<"api", "messages", ":messageId", "processed">>>>,
      <<"GET", <<"api", "sim-cards">>>>,
      <<"POST", <<"api", "sim-cards">>>>,
      <<"GET", <<"api", "simakohost", "status">>>>,
      <<"POST", <<"api", "simakohost", "send-sms">>>> }

\* a request's method and path match a route (a parameter segment matches
\* any segment)
Matched(method, path) ==
    \E r \in RouteTable :
        /\ r[1] = method
        /\ Len(r[2]) = Len(path)
        /\ \A i \in 1..Len(path) :
            r[2][i] = ":messageId" \/ r[2][i] = path[i]

\* app.use('/api/', ...): the path is /api or below it
UnderApi(path) == Len(path) >= 1 /\ path[1] = "api"

RouteRequest(method, path, body) ==
    [route |-> "none", method |-> method, path |-> path, body |-> body]

\* requests that are sent to no route: a path that no route has, below /api/
\* and not, a route's path with another method, a path one segment short of
\* a route's; a body that express.json cannot parse; a preflight
UnmatchedRequests ==
    {r \in { RouteRequest("GET", <<>>, "none"),
             RouteRequest("GET", <<"api", "nope">>, "none"),
             RouteRequest("POST", <<"health">>, "json"),
             RouteRequest("DELETE", <<"api", "messages", "1">>, "none"),
             RouteRequest("PUT", <<"api", "messages", "1">>, "json"),
             RouteRequest("POST", <<"api", "nope">>, "malformed"),
             RouteRequest("OPTIONS", <<"api", "messages">>, "none"),
             RouteRequest("GET", <<"health">>, "none") } :
        ~Matched(r.method, r.path)}

\* mutant: the request that reaches max is refused already
OverLimitFromMax(count) == count >= RateLimitMax

\* the limiter refuses a request when the count, this request included, is
\* over max
OverLimit(count) == count > RateLimitMax

\* the limiter's answer
TooMany(req) ==
    Done(req, 429, [text |-> "Too many requests, please try again later."])

\* the limiter's count for the address of connection c (keyed by req.ip)
Counted(c) == hits[AddressOf(c)]

\* the limiter counts a request of connection c
CountOne(c) ==
    /\ Counted(c) < RateLimitMax + MaxOver
    /\ hits' = [hits EXCEPT ![AddressOf(c)] = @ + 1]

\* the limiter counts a request to a route under /api/ and lets it through
Limited(c) ==
    /\ CountOne(c)
    /\ ~OverLimit(Counted(c) + 1)

\* the limiter counts a request under /api/ and refuses it
Refuse(c, req) ==
    /\ Free(c)
    /\ CountOne(c)
    /\ OverLimit(Counted(c) + 1)
    /\ conn' = [conn EXCEPT ![c] = TooMany(req)]
    /\ UNCHANGED <<messages, sim_cards, now>>

\* the window of an address ends: its count starts again
WindowReset(a) ==
    /\ hits[a] > 0
    /\ hits' = [hits EXCEPT ![a] = 0]
    /\ UNCHANGED <<messages, sim_cards, now, conn>>

\* a request that matches no route goes down the middleware: cors answers a
\* preflight; a body that express.json cannot parse goes to the error
\* middleware; the limiter counts a request under /api/ and refuses it when
\* over max; what is left reaches the 404 handler
Unmatched(c, r) ==
    /\ Free(c)
    /\ IF r.method = "OPTIONS"
       THEN /\ conn' = [conn EXCEPT ![c] = Done(r, 204, [text |-> ""])]
            /\ UNCHANGED hits
       ELSE IF r.body = "malformed"
       THEN /\ conn' = [conn EXCEPT ![c] =
                   Done(r, 500, [error |-> "Something went wrong!"])]
            /\ UNCHANGED hits
       ELSE IF UnderApi(r.path)
       THEN /\ CountOne(c)
            /\ conn' = [conn EXCEPT ![c] =
                   IF OverLimit(Counted(c) + 1) THEN TooMany(r)
                   ELSE Done(r, 404, [error |-> "Endpoint not found"])]
       ELSE /\ conn' = [conn EXCEPT ![c] =
                   Done(r, 404, [error |-> "Endpoint not found"])]
            /\ UNCHANGED hits
    /\ UNCHANGED <<messages, sim_cards, now>>

\* GET /health
Health(c) ==
    /\ Free(c)
    /\ conn' = [conn EXCEPT ![c] =
           Done([route |-> "GET /health"], 200,
                [status |-> "ok", service |-> "Simako Node.js Backend",
                 mongodb |-> IF startup = "connected" THEN "connected"
                             ELSE "disconnected",
                 timestamp |-> now])]
    /\ UNCHANGED <<messages, sim_cards, now>>

\* GET /api/simakohost/status
SimakoHostStatus(c) ==
    /\ Free(c)
    /\ conn' = [conn EXCEPT ![c] =
           Done([route |-> "GET /api/simakohost/status"], 200,
                [status |-> "ok",
                 message |-> "SimakoHost integration endpoint",
                 timestamp |-> now])]
    /\ UNCHANGED <<messages, sim_cards, now>>

----------------------------------------------------------------------------
(* Start-up: mongoose.connect is called and, without waiting for it,       *)
(* app.listen; the connection then succeeds, or fails and the catch        *)
(* callback ends the process                                               *)

\* the process has ended by process.exit(1)
Exited == "exited with code 1"

\* the process is alive: it reads requests and runs callbacks
Running == startup # Exited

\* mongoose.connect resolves
ConnectSucceeds ==
    /\ startup = "connecting"
    /\ startup' = "connected"
    /\ UNCHANGED <<messages, sim_cards, now, conn, hits>>

\* mutant: the failure is logged and the process stays up
ConnectFailsStaysUp ==
    /\ startup = "connecting"
    /\ startup' = "disconnected"
    /\ UNCHANGED <<messages, sim_cards, now, conn, hits>>

\* mongoose.connect rejects: the catch callback logs and calls
\* process.exit(1); what the connections hold is never answered
ConnectFails ==
    /\ startup = "connecting"
    /\ startup' = Exited
    /\ UNCHANGED <<messages, sim_cards, now, conn, hits>>

\* GET /api/sim-cards read while the connection is pending: mongoose keeps
\* the find until the connection is there, the handler waits on it
GetSimCardsBuffered(c) ==
    /\ Free(c)
    /\ startup = "connecting"
    /\ conn' = [conn EXCEPT ![c] =
           [pc |-> "buffered", req |-> [route |-> "GET /api/sim-cards"]]]
    /\ UNCHANGED <<messages, sim_cards, now>>

\* the connection is there: the find that was kept runs, the handler answers
GetSimCardsFlushed(c) ==
    /\ conn[c].pc = "buffered"
    /\ startup = "connected"
    /\ conn' = [conn EXCEPT ![c] =
           Done(conn[c].req, 200, [sim_cards |-> sim_cards])]
    /\ UNCHANGED <<messages, sim_cards, now>>

----------------------------------------------------------------------------
(* The clock *)

\* the clock advances
Tick ==
    /\ now < MaxTime
    /\ now' = now + 1
    /\ UNCHANGED <<messages, sim_cards, conn>>

---------------------------------------------------------------------------------------------------------------------------------------------------
(* Specifications *)

\* In every specification but SpecGateway the client's requests stay within
\* the limiter's allowance and the limiter's count is not followed.

PathIds == 0..(MaxMsgs + 1)

\* a SIM registered before the server started (the store outlives the server)
RegisteredSim ==
    NewSimCard(SimBody("SIM001", "+111", "Orange", "false", {}), 1, 0)

\* the server after start-up, one connection: no message stored yet, one SIM
\* registered
Init ==
    /\ messages = <<>>
    /\ sim_cards = <<RegisteredSim>>
    /\ now = 0
    /\ conn = [c \in {"c1"} |-> Idle]
    /\ hits = [a \in Addresses |-> 0]
    /\ startup = "connected"

\* a body that would be stored is posted only while the collection holds
\* fewer than cap records
Room(b, cap) == MessageValidationError(b) = NoError => Len(messages) < cap

\* the messages routes, requests handled one after the other
Next ==
    \/ Tick /\ UNCHANGED <<hits, startup>>
    \/ \E c \in DOMAIN conn, b \in MessageBodies :
            Room(b, MaxMsgs) /\ PostMessage(c, b) /\ UNCHANGED <<hits, startup>>
    \/ \E c \in DOMAIN conn, id \in PathIds : PutProcessed(c, id)
            /\ UNCHANGED <<hits, startup>>
    \/ \E c \in DOMAIN conn, q \in Queries : GetMessagesFind(c, q)
            /\ UNCHANGED <<hits, startup>>
    \/ \E c \in DOMAIN conn : GetMessagesCount(c) /\ UNCHANGED <<hits, startup>>

Spec == Init /\ [][Next]_vars

\* a store that holds as many messages as the default page, each with a
\* timestamp of its own, later than the clock's
FullPageStore ==
    [i \in 1..DefaultLimit |->
        NewMessage(MsgBody("SIM001", "call", "+111", Absent, "ring",
                           MaxTime + i, NoObject, {}), i, 0)]

\* the server after start-up over that store
InitFullPage ==
    /\ messages = FullPageStore
    /\ sim_cards = <<RegisteredSim>>
    /\ now = 0
    /\ conn = [c \in {"c1"} |-> Idle]
    /\ hits = [a \in Addresses |-> 0]
    /\ startup = "connected"

\* one more message is ingested, and the collection is listed with the
\* default page
NextFullPage ==
    \/ Tick /\ UNCHANGED <<hits, startup>>
    \/ \E c \in DOMAIN conn, b \in MessageBodies :
            Room(b, DefaultLimit + 1) /\ PostMessage(c, b) /\ UNCHANGED <<hits, startup>>
    \/ \E c \in DOMAIN conn,
          q \in {r \in Queries : r.limit = Unset /\ r.skip = Unset} :
            GetMessagesFind(c, q) /\ UNCHANGED <<hits, startup>>
    \/ \E c \in DOMAIN conn : GetMessagesCount(c) /\ UNCHANGED <<hits, startup>>

SpecFullPage == InitFullPage /\ [][NextFullPage]_vars

\* the server after start-up, two connections: both collections empty
InitRegister ==
    /\ messages = <<>>
    /\ sim_cards = <<>>
    /\ now = 0
    /\ conn = [c \in Clients |-> Idle]
    /\ hits = [a \in Addresses |-> 0]
    /\ startup = "connected"

\* the sim_cards routes, requests of the two connections interleaved
NextRegister ==
    \/ Tick /\ UNCHANGED <<hits, startup>>
    \/ \E c \in DOMAIN conn, b \in SimBodies : PostSimCardLookup(c, b)
            /\ UNCHANGED <<hits, startup>>
    \/ \E c \in DOMAIN conn : PostSimCardSave(c) /\ UNCHANGED <<hits, startup>>
    \/ \E c \in DOMAIN conn : GetSimCards(c) /\ UNCHANGED <<hits, startup>>

SpecRegister == InitRegister /\ [][NextRegister]_vars

\* the server after start-up, two connections: no message stored yet
InitConcurrent ==
    /\ messages = <<>>
    /\ sim_cards = <<RegisteredSim>>
    /\ now = 0
    /\ conn = [c \in Clients |-> Idle]
    /\ hits = [a \in Addresses |-> 0]
    /\ startup = "connected"

\* ingest and mark-processed, requests of the two connections interleaved
NextConcurrent ==
    \/ Tick /\ UNCHANGED <<hits, startup>>
    \/ \E c \in DOMAIN conn, b \in ValidMessageBodies :
            Room(b, MaxMsgs) /\ PostMessage(c, b) /\ UNCHANGED <<hits, startup>>
    \/ \E c \in DOMAIN conn, id \in PathIds : PutProcessed(c, id)
            /\ UNCHANGED <<hits, startup>>

SpecConcurrent == InitConcurrent /\ [][NextConcurrent]_vars

\* the server after start-up, one connection: both collections empty
InitStore ==
    /\ messages = <<>>
    /\ sim_cards = <<>>
    /\ now = 0
    /\ conn = [c \in {"c1"} |-> Idle]
    /\ hits = [a \in Addresses |-> 0]
    /\ startup = "connected"

\* the routes that write to the two collections and the send-sms route,
\* requests handled one after the other
NextStore ==
    \/ Tick /\ UNCHANGED <<hits, startup>>
    \/ \E c \in DOMAIN conn, b \in MessageBodies :
            Room(b, MaxMsgs) /\ PostMessage(c, b) /\ UNCHANGED <<hits, startup>>
    \/ \E c \in DOMAIN conn, b \in SimBodies : PostSimCardLookup(c, b)
            /\ UNCHANGED <<hits, startup>>
    \/ \E c \in DOMAIN conn : PostSimCardSave(c) /\ UNCHANGED <<hits, startup>>
    \/ \E c \in DOMAIN conn, b \in SmsBodies : SendSms(c, b) /\ UNCHANGED <<hits, startup>>

SpecStore == InitStore /\ [][NextStore]_vars

\* the five routes that use the store, each store call of which may fail,
\* requests handled one after the other; the collection is listed whole
NextFaulty ==
    \/ \E c \in DOMAIN conn, b \in ValidMessageBodies :
            Room(b, MaxMsgs) /\ PostMessage(c, b) /\ UNCHANGED <<hits, startup>>
    \/ \E c \in DOMAIN conn, b \in ValidMessageBodies :
            Room(b, MaxMsgs) /\ PostMessageFails(c, b) /\ UNCHANGED <<hits, startup>>
    \/ \E c \in DOMAIN conn, id \in PathIds : PutProcessed(c, id)
            /\ UNCHANGED <<hits, startup>>
    \/ \E c \in DOMAIN conn, id \in PathIds : PutProcessedFails(c, id)
            /\ UNCHANGED <<hits, startup>>
    \/ \E c \in DOMAIN conn, q \in {Query(Absent, Absent, Unset, Unset)} :
            GetMessagesFind(c, q) /\ UNCHANGED <<hits, startup>>
    \/ \E c \in DOMAIN conn, q \in {Query(Absent, Absent, Unset, Unset)} :
            GetMessagesFindFails(c, q) /\ UNCHANGED <<hits, startup>>
    \/ \E c \in DOMAIN conn : GetMessagesCount(c) /\ UNCHANGED <<hits, startup>>
    \/ \E c \in DOMAIN conn : GetMessagesCountFails(c) /\ UNCHANGED <<hits, startup>>
    \/ \E c \in DOMAIN conn : GetSimCards(c) /\ UNCHANGED <<hits, startup>>
    \/ \E c \in DOMAIN conn : GetSimCardsFails(c) /\ UNCHANGED <<hits, startup>>
    \/ \E c \in DOMAIN conn, b \in ValidSimBodies : PostSimCardLookup(c, b)
            /\ UNCHANGED <<hits, startup>>
    \/ \E c \in DOMAIN conn, b \in ValidSimBodies :
            PostSimCardLookupFails(c, b) /\ UNCHANGED <<hits, startup>>
    \/ \E c \in DOMAIN conn : PostSimCardSave(c) /\ UNCHANGED <<hits, startup>>
    \/ \E c \in DOMAIN conn : PostSimCardSaveFails(c) /\ UNCHANGED <<hits, startup>>

\* the server after start-up over an empty store whose calls may fail
SpecFaulty == InitStore /\ [][NextFaulty]_vars

\* the server after start-up, two connections of one client address, over
\* a store that holds a SIM's record or none
InitGateway ==
    /\ messages = <<>>
    /\ sim_cards \in {<<>>, <<RegisteredSim>>}
    /\ now = 0
    /\ conn = [c \in Clients |-> Idle]
    /\ hits = [a \in Addresses |-> 0]
    /\ startup = "connected"

\* the send-sms bodies of this specification: complete, without message,
\* with an empty message
GatewaySmsBodies == {b \in SmsBodies : b.sim_id = "SIM001" /\ b.to = "+222"}

\* the requests that the limiter may refuse, as their handlers record them
LimitedRequests ==
    {[route |-> "GET /api/sim-cards"], [route |-> "GET /api/simakohost/status"]}
    \cup {[route |-> "POST /api/simakohost/send-sms", body |-> b] :
            b \in GatewaySmsBodies}

\* the whole path of a request, from the middleware to the routes that do
\* not write to the store, and of the requests that match no route
NextGateway ==
    \/ Tick /\ UNCHANGED <<hits, startup>>
    \/ \E a \in {AddressOf(c) : c \in DOMAIN conn} :
            WindowReset(a) /\ UNCHANGED startup
    \/ \E c \in DOMAIN conn, r \in UnmatchedRequests :
            Unmatched(c, r) /\ UNCHANGED startup
    \/ \E c \in DOMAIN conn : Health(c) /\ UNCHANGED <<hits, startup>>
    \/ \E c \in DOMAIN conn :
            Limited(c) /\ SimakoHostStatus(c) /\ UNCHANGED startup
    \/ \E c \in DOMAIN conn :
            Limited(c) /\ GetSimCards(c) /\ UNCHANGED startup
    \/ \E c \in DOMAIN conn, b \in GatewaySmsBodies :
            Limited(c) /\ SendSms(c, b) /\ UNCHANGED startup
    \/ \E c \in DOMAIN conn, req \in LimitedRequests :
            Refuse(c, req) /\ UNCHANGED startup

SpecGateway == InitGateway /\ [][NextGateway]_vars

\* the process right after its start: the listener is up, the connection
\* to a store that holds a SIM's record is pending
InitStartup ==
    /\ messages = <<>>
    /\ sim_cards = <<RegisteredSim>>
    /\ now = 0
    /\ conn = [c \in Clients |-> Idle]
    /\ hits = [a \in Addresses |-> 0]
    /\ startup = "connecting"

\* the outcome of the connection attempt, and the requests that a running
\* process serves: one route that does not use the store, one that does
NextStartup ==
    \/ Running /\ Tick /\ UNCHANGED <<hits, startup>>
    \/ ConnectSucceeds
    \/ ConnectFails
    \/ \E c \in DOMAIN conn :
            Running /\ Health(c) /\ UNCHANGED <<hits, startup>>
    \/ \E c \in DOMAIN conn :
            Running /\ GetSimCardsBuffered(c) /\ UNCHANGED <<hits, startup>>
    \/ \E c \in DOMAIN conn :
            Running /\ GetSimCardsFlushed(c) /\ UNCHANGED <<hits, startup>>
    \/ \E c \in DOMAIN conn :
            startup = "connected" /\ GetSimCards(c)
            /\ UNCHANGED <<hits, startup>>

SpecStartup == InitStartup /\ [][NextStartup]_vars

\* the requests of the second address are followed up to this count
MaxOther == 2

\* the server after start-up, a connection from each of two addresses
InitLimiter ==
    /\ messages = <<>>
    /\ sim_cards = <<RegisteredSim>>
    /\ now = 0
    /\ conn = [c \in {"c1", "c3"} |-> Idle]
    /\ hits = [a \in Addresses |-> 0]
    /\ startup = "connected"

\* the message that is ingested in this specification
LimiterBodies == {b \in ValidMessageBodies : b.sim_id = "SIM002"}

\* the second address sends few requests
Few(c) == AddressOf(c) = "a2" => hits["a2"] < MaxOther

\* requests of two addresses to a route that writes, to one that reads, and
\* to GET /health, which is not under /api/
NextLimiter ==
    \/ \E a \in Addresses : WindowReset(a) /\ UNCHANGED startup
    \/ \E c \in DOMAIN conn : Health(c) /\ UNCHANGED <<hits, startup>>
    \/ \E c \in DOMAIN conn, b \in LimiterBodies :
            Few(c) /\ Room(b, MaxMsgs) /\ Limited(c) /\ PostMessage(c, b)
            /\ UNCHANGED startup
    \/ \E c \in DOMAIN conn :
            Few(c) /\ Limited(c) /\ GetSimCards(c) /\ UNCHANGED startup
    \/ \E c \in DOMAIN conn,
          req \in {[route |-> "GET /api/sim-cards"]}
                  \cup {[route |-> "POST /api/messages", body |-> b] :
                            b \in LimiterBodies} :
            Few(c) /\ Refuse(c, req) /\ UNCHANGED startup

SpecLimiter == InitLimiter /\ [][NextLimiter]_vars

\* query strings of the interleaved lists: no filter, a filter, and pages
ListingQueries ==
    { Query(Absent, Absent, Unset, Unset),
      Query("SIM001", Absent, Unset, Unset),
      Query(Absent, Absent, 0, Unset),
      Query(Absent, Absent, 1, 1) }

\* lists and ingests of two connections: an ingest may commit between a
\* list's page query and its count query
NextListing ==
    \/ \E c \in DOMAIN conn, b \in ValidMessageBodies :
            Room(b, MaxMsgs) /\ PostMessage(c, b) /\ UNCHANGED <<hits, startup>>
    \/ \E c \in DOMAIN conn, q \in ListingQueries : GetMessagesFind(c, q)
            /\ UNCHANGED <<hits, startup>>
    \/ \E c \in DOMAIN conn : GetMessagesCount(c)
            /\ UNCHANGED <<hits, startup>>

SpecListing == InitConcurrent /\ [][NextListing]_vars

\* bodies that carry, beside the keys of a valid body, a key of the
\* Message schema that messageValidation does not name, or the document's id
ServerFieldBodies ==
    { MsgBody("SIM001", "sms", "+111", "+222", "hello", 1, NoObject, extra) :
        extra \in {{"processed"}, {"processed_at"}, {"created_at"}, {"_id"},
                   {"processed", "processed_at"}} }

\* ingest of bodies with and without such keys, one request after the other
NextIngest ==
    \/ Tick /\ UNCHANGED <<hits, startup>>
    \/ \E c \in DOMAIN conn, b \in ValidMessageBodies \cup ServerFieldBodies :
            Room(b, MaxMsgs) /\ PostMessage(c, b) /\ UNCHANGED <<hits, startup>>

SpecIngest == InitStore /\ [][NextIngest]_vars

----------------------------------------------------------------------------
(* The handlers that write or queue, statement by statement: a request     *)
(* enters its handler, the handler runs to its next await or to its end,   *)
(* and the store call it awaits returns or rejects                         *)

\* a request that has reached its handler: nothing sent yet
Entered(req) == [pc |-> "entered", req |-> req, sent |-> <<>>]

\* res.status(status).json(body)
Send(h, status, body) ==
    [h EXCEPT !.sent = Append(@, [status |-> status, body |-> body])]

\* return, or the end of the function body
Return(h) == [h EXCEPT !.pc = "ended"]

\* await: the handler is suspended until the call settles
Await(h, call) == [h EXCEPT !.pc = call]

\* the catch branch of a handler
Caught(h) == Return(Send(h, 500, [error |-> "Internal server error"]))

\* the handler of connection c is at this point of this route
At(c, route, pc) ==
    /\ conn[c].pc = pc
    /\ conn[c].req.route = route

\* bodies of the requests followed statement by statement
StepMessageBodies ==
    {b \in MessageBodies : b.sim_id = "SIM001" /\ b.type \in {"sms", "mms"}
                           /\ b.message = "hello" /\ b.extra = {}}
StepSimBodies ==
    {b \in SimBodies : b.sim_id = "SIM002" \/ b.phone_number = Absent}

HandlerRequests ==
    {[route |-> "POST /api/messages", body |-> b] : b \in StepMessageBodies}
    \cup {[route |-> "PUT /api/messages/:messageId/processed",
           messageId |-> id] : id \in PathIds}
    \cup {[route |-> "POST /api/sim-cards", body |-> b] : b \in StepSimBodies}
    \cup {[route |-> "POST /api/simakohost/send-sms", body |-> b] :
            b \in GatewaySmsBodies}

\* the ingests on their way to the store
Ingesting ==
    {c \in DOMAIN conn :
        /\ conn[c].pc \in {"entered", "message.save"}
        /\ conn[c].req.route = "POST /api/messages"
        /\ MessageValidationError(conn[c].req.body) = NoError}

\* a request is read on a connection that has none in hand
Arrive(c, req) ==
    /\ conn[c].pc \in {"idle", "ended"}
    /\ ( /\ req.route = "POST /api/messages"
         /\ MessageValidationError(req.body) = NoError )
       => Len(messages) + Cardinality(Ingesting) < MaxMsgs
    /\ conn' = [conn EXCEPT ![c] = Entered(req)]
    /\ UNCHANGED <<messages, sim_cards, now>>

\* mutant: the return of the validation branch is missing
MessageValidateNoReturn(c) ==
    /\ At(c, "POST /api/messages", "entered")
    /\ LET error == MessageValidationError(conn[c].req.body)
       IN conn' = [conn EXCEPT ![c] =
            IF error # NoError
            THEN Await(Send(@, 400, [error |-> error]), "message.save")
            ELSE Await(@, "message.save")]
    /\ UNCHANGED <<messages, sim_cards, now>>

\* POST /api/messages up to message.save()
MessageValidate(c) ==
    /\ At(c, "POST /api/messages", "entered")
    /\ LET error == MessageValidationError(conn[c].req.body)
       IN conn' = [conn EXCEPT ![c] =
            IF error # NoError
            THEN Return(Send(@, 400, [error |-> error]))
            ELSE Await(@, "message.save")]
    /\ UNCHANGED <<messages, sim_cards, now>>

\* message.save() returns
MessageSaved(c) ==
    /\ At(c, "POST /api/messages", "message.save")
    /\ LET saved == NewMessage(conn[c].req.body, NewObjectId(messages), now)
       IN /\ messages' = Append(messages, saved)
          /\ conn' = [conn EXCEPT ![c] =
                Return(Send(@, 201, [status |-> "ok",
                                     message_id |-> saved._id,
                                     received |-> saved]))]
    /\ UNCHANGED <<sim_cards, now>>

\* message.save() rejects
MessageSaveRejected(c) ==
    /\ At(c, "POST /api/messages", "message.save")
    /\ messages' \in
        {messages,
         Append(messages,
                NewMessage(conn[c].req.body, NewObjectId(messages), now))}
    /\ conn' = [conn EXCEPT ![c] = Caught(@)]
    /\ UNCHANGED <<sim_cards, now>>

\* PUT /api/messages/:messageId/processed up to findByIdAndUpdate
ProcessedCall(c) ==
    /\ At(c, "PUT /api/messages/:messageId/processed", "entered")
    /\ conn' = [conn EXCEPT ![c] = Await(@, "findByIdAndUpdate")]
    /\ UNCHANGED <<messages, sim_cards, now>>

\* findByIdAndUpdate returns, or throws at the cast of messageId
ProcessedReturned(c) ==
    /\ At(c, "PUT /api/messages/:messageId/processed", "findByIdAndUpdate")
    /\ LET id == conn[c].req.messageId
       IN IF id = MalformedId
          THEN /\ conn' = [conn EXCEPT ![c] = Caught(@)]
               /\ UNCHANGED messages
          ELSE IF ById(messages, id) = {}
          THEN /\ conn' = [conn EXCEPT ![c] =
                      Return(Send(@, 404, [error |-> "Message not found"]))]
               /\ UNCHANGED messages
          ELSE /\ messages' = MarkProcessed(messages, id, now)
               /\ conn' = [conn EXCEPT ![c] =
                      Return(Send(@, 200,
                           [status |-> "ok",
                            message |-> "Message marked as processed",
                            data |-> CHOOSE m \in ById(messages', id) : TRUE]))]
    /\ UNCHANGED <<sim_cards, now>>

\* findByIdAndUpdate rejects
ProcessedRejected(c) ==
    /\ At(c, "PUT /api/messages/:messageId/processed", "findByIdAndUpdate")
    /\ conn[c].req.messageId # MalformedId
    /\ messages' \in {messages,
                      MarkProcessed(messages, conn[c].req.messageId, now)}
    /\ conn' = [conn EXCEPT ![c] = Caught(@)]
    /\ UNCHANGED <<sim_cards, now>>

\* POST /api/sim-cards up to SimCard.findOne
SimCardValidate(c) ==
    /\ At(c, "POST /api/sim-cards", "entered")
    /\ LET error == SimCardValidationError(conn[c].req.body)
       IN conn' = [conn EXCEPT ![c] =
            IF error # NoError
            THEN Return(Send(@, 400, [error |-> error]))
            ELSE Await(@, "findOne")]
    /\ UNCHANGED <<messages, sim_cards, now>>

\* SimCard.findOne returns
SimCardLooked(c) ==
    /\ At(c, "POST /api/sim-cards", "findOne")
    /\ conn' = [conn EXCEPT ![c] =
            IF FindOne(sim_cards, conn[c].req.body.sim_id) # {}
            THEN Return(Send(@, 409,
                             [error |-> "SIM card already registered"]))
            ELSE Await(@, "simCard.save")]
    /\ UNCHANGED <<messages, sim_cards, now>>

\* SimCard.findOne rejects
SimCardLookupRejected(c) ==
    /\ At(c, "POST /api/sim-cards", "findOne")
    /\ conn' = [conn EXCEPT ![c] = Caught(@)]
    /\ UNCHANGED <<messages, sim_cards, now>>

\* simCard.save() returns, or rejects for the unique index
SimCardSaved(c) ==
    /\ At(c, "POST /api/sim-cards", "simCard.save")
    /\ Len(sim_cards) < MaxSims
    /\ LET card == NewSimCard(conn[c].req.body, NewObjectId(sim_cards), now)
       IN IF DuplicateKey(sim_cards, card)
          THEN /\ conn' = [conn EXCEPT ![c] = Caught(@)]
               /\ UNCHANGED sim_cards
          ELSE /\ sim_cards' = Append(sim_cards, card)
               /\ conn' = [conn EXCEPT ![c] =
                      Return(Send(@, 201,
                                  [status |-> "ok", sim_card |-> card]))]
    /\ UNCHANGED <<messages, now>>

\* simCard.save() rejects for another reason
SimCardSaveRejected(c) ==
    /\ At(c, "POST /api/sim-cards", "simCard.save")
    /\ LET card == NewSimCard(conn[c].req.body, NewObjectId(sim_cards), now)
       IN sim_cards' \in
            {sim_cards} \cup
            (IF ~DuplicateKey(sim_cards, card) /\ Len(sim_cards) < MaxSims
             THEN {Append(sim_cards, card)} ELSE {})
    /\ conn' = [conn EXCEPT ![c] = Caught(@)]
    /\ UNCHANGED <<messages, now>>

\* POST /api/simakohost/send-sms: the handler awaits nothing
SmsRun(c) ==
    /\ At(c, "POST /api/simakohost/send-sms", "entered")
    /\ LET b == conn[c].req.body
       IN conn' = [conn EXCEPT ![c] =
            IF SmsFieldsMissing(b)
            THEN Return(Send(@, 400,
                    [error |->
                        "Missing required fields: sim_id, to, message"]))
            ELSE Return(Send(@, 202,
                    [status |-> "ok",
                     message |-> "SMS queued for sending",
                     request |-> [sim_id |-> b.sim_id, to |-> b.to,
                                  message |-> b.message,
                                  status |-> "queued",
                                  created_at |-> now]]))]
    /\ UNCHANGED <<messages, sim_cards, now>>

\* the server after start-up over an empty store, two connections
InitAnswered ==
    /\ messages = <<>>
    /\ sim_cards = <<>>
    /\ now = 0
    /\ conn = [c \in Clients |-> Idle]
    /\ hits = [a \in Addresses |-> 0]
    /\ startup = "connected"

NextAnswered ==
    \/ \E c \in DOMAIN conn, req \in HandlerRequests : Arrive(c, req)
            /\ UNCHANGED <<hits, startup>>
    \/ \E c \in DOMAIN conn : MessageValidate(c) /\ UNCHANGED <<hits, startup>>
    \/ \E c \in DOMAIN conn : MessageSaved(c) /\ UNCHANGED <<hits, startup>>
    \/ \E c \in DOMAIN conn : MessageSaveRejected(c)
            /\ UNCHANGED <<hits, startup>>
    \/ \E c \in DOMAIN conn : ProcessedCall(c) /\ UNCHANGED <<hits, startup>>
    \/ \E c \in DOMAIN conn : ProcessedReturned(c)
            /\ UNCHANGED <<hits, startup>>
    \/ \E c \in DOMAIN conn : ProcessedRejected(c)
            /\ UNCHANGED <<hits, startup>>
    \/ \E c \in DOMAIN conn : SimCardValidate(c) /\ UNCHANGED <<hits, startup>>
    \/ \E c \in DOMAIN conn : SimCardLooked(c) /\ UNCHANGED <<hits, startup>>
    \/ \E c \in DOMAIN conn : SimCardLookupRejected(c)
            /\ UNCHANGED <<hits, startup>>
    \/ \E c \in DOMAIN conn : SimCardSaved(c) /\ UNCHANGED <<hits, startup>>
    \/ \E c \in DOMAIN conn : SimCardSaveRejected(c)
            /\ UNCHANGED <<hits, startup>>
    \/ \E c \in DOMAIN conn : SmsRun(c) /\ UNCHANGED <<hits, startup>>

\* the handler of connection c runs on, or the call it awaits settles
HandlerStep(c) ==
    /\ \/ MessageValidate(c) \/ MessageSaved(c) \/ MessageSaveRejected(c)
       \/ ProcessedCall(c) \/ ProcessedReturned(c) \/ ProcessedRejected(c)
       \/ SimCardValidate(c) \/ SimCardLooked(c) \/ SimCardLookupRejected(c)
       \/ SimCardSaved(c) \/ SimCardSaveRejected(c)
       \/ SmsRun(c)
    /\ UNCHANGED <<hits, startup>>

\* the event loop runs every handler that can run, and every store call
\* settles: it returns or it rejects
SpecAnswered ==
    /\ InitAnswered
    /\ [][NextAnswered]_vars
    /\ \A c \in Clients : WF_vars(HandlerStep(c))

----------------------------------------------------------------------------
(* Properties *)

\* connection c holds the response to a request of this route
Answered(c, route) == conn[c].pc = "done" /\ conn[c].req.route = route

\* in this step connection c answers a request of this route
Answers(c, route) ==
    /\ conn'[c] # conn[c]
    /\ conn'[c].pc = "done"
    /\ conn'[c].req.route = route

\* C1: every stored message has processed_at set if and only if its
\* processed flag is true
C1_ProcessedAtIffProcessed ==
    \A i \in 1..Len(messages) :
        (messages[i].processed_at # Unset) <=> messages[i].processed

\* a processed message with its stamp beside one not yet processed
C1_Witness ==
    \E i, j \in 1..Len(messages) :
        /\ messages[i].processed /\ messages[i].processed_at # Unset
        /\ ~messages[j].processed /\ messages[j].processed_at = Unset

\* the positions of the records of a collection that carry this sim_id
CardsOf(cards, sim) == {i \in 1..Len(cards) : cards[i].sim_id = sim}

\* C2: the sim_cards collection never holds two records of one sim_id, and
\* no step changes or removes a record it already holds (a registration of
\* an existing sim_id is not merged into it), whatever the interleaving of
\* the registrations
C2_OneRecordPerSimId ==
    /\ [](\A i, j \in 1..Len(sim_cards) :
            sim_cards[i].sim_id = sim_cards[j].sim_id => i = j)
    /\ [][\A i \in 1..Len(sim_cards) :
            i <= Len(sim_cards') /\ sim_cards'[i] = sim_cards[i]]_vars

\* a registration that lost the race: it carried other data for a sim_id
\* that another connection inserted after its lookup, and the record is as
\* the winner stored it
C2_Witness ==
    \E c \in DOMAIN conn :
        /\ Answered(c, "POST /api/sim-cards")
        /\ conn[c].resp.status = 500
        /\ \E i \in CardsOf(sim_cards, conn[c].req.body.sim_id) :
            sim_cards[i].phone_number # conn[c].req.body.phone_number

\* C3: registrations of one sim_id handled one after the other. The first
\* (its insert finds no record of the sim_id) is answered 201 with the
\* record it stored; the second (it starts when the record is there) is
\* answered 409 "SIM card already registered"; after each the collection
\* holds exactly one record of the sim_id
C3_SecondRegistrationConflicts ==
    [][\A c \in DOMAIN conn :
        /\ ( /\ conn[c].pc = "save"
             /\ conn'[c].pc = "done"
             /\ CardsOf(sim_cards, conn[c].req.body.sim_id) = {} )
           => /\ conn'[c].resp.status = 201
              /\ \E i \in CardsOf(sim_cards', conn[c].req.body.sim_id) :
                    sim_cards'[i] = conn'[c].resp.body.sim_card
              /\ Cardinality(CardsOf(sim_cards', conn[c].req.body.sim_id)) = 1
        /\ ( /\ conn[c].pc \in {"idle", "done"}
             /\ Answers(c, "POST /api/sim-cards") \/ conn'[c].pc = "save"
             /\ conn'[c].req.body.sim_id # Absent
             /\ conn'[c].req.body.phone_number # Absent
             /\ CardsOf(sim_cards, conn'[c].req.body.sim_id) # {} )
           => /\ conn'[c].pc = "done"
              /\ conn'[c].resp.status = 409
              /\ conn'[c].resp.body = [error |-> "SIM card already registered"]
              /\ Cardinality(CardsOf(sim_cards', conn'[c].req.body.sim_id)) = 1
      ]_vars

\* one connection answered 201 and the other 409 for the same sim_id
C3_Witness ==
    \E c, d \in DOMAIN conn :
        /\ Answered(c, "POST /api/sim-cards") /\ conn[c].resp.status = 201
        /\ Answered(d, "POST /api/sim-cards") /\ conn[d].resp.status = 409
        /\ conn[c].req.body.sim_id = conn[d].req.body.sim_id
        /\ Cardinality(CardsOf(sim_cards, conn[c].req.body.sim_id)) = 1

\* C4, as claimed: a valid registration that is not answered 201 (it is
\* refused because its sim_id is registered) is answered 409
C4_RefusedDuplicateAnswered409 ==
    \A c \in DOMAIN conn :
        ( /\ Answered(c, "POST /api/sim-cards")
          /\ conn[c].req.body.sim_id # Absent
          /\ conn[c].req.body.phone_number # Absent
          /\ conn[c].resp.status # 201 )
        => conn[c].resp.status = 409

\* a body that lacks a required key or whose type is not sms or call
LacksRequired(b) ==
    \/ b.sim_id = Absent \/ b.type = Absent
    \/ b.from = Absent \/ b.message = Absent
    \/ b.type \notin {"sms", "call"}

\* C5: POST /api/messages with a body that lacks sim_id, type, from or
\* message, or whose type is not sms or call, is answered 400 and changes
\* neither collection
C5_InvalidMessageRejected ==
    [][\A c \in DOMAIN conn :
        (Answers(c, "POST /api/messages") /\ LacksRequired(conn'[c].req.body))
        => /\ conn'[c].resp.status = 400
           /\ messages' = messages
           /\ sim_cards' = sim_cards]_vars

\* such a request answered 400 while both collections hold records
C5_Witness ==
    \E c \in DOMAIN conn :
        /\ Answered(c, "POST /api/messages")
        /\ LacksRequired(conn[c].req.body)
        /\ conn[c].resp.status = 400
        /\ messages # <<>> /\ sim_cards # <<>>

\* C6: a POST /api/messages answered 201 appends exactly one record; its id
\* is that of no record stored before, processed is false, processed_at is
\* not set, created_at is the time of the insert, timestamp is the request's
\* when given and the time of the insert otherwise; the response carries the
\* stored record and its id as message_id
C6_IngestStoresOneRecord ==
    [][\A c \in DOMAIN conn :
        (Answers(c, "POST /api/messages") /\ conn'[c].resp.status = 201)
        => LET r == conn'[c].resp.body.received
               b == conn'[c].req.body
           IN /\ Len(messages') = Len(messages) + 1
              /\ SubSeq(messages', 1, Len(messages)) = messages
              /\ messages'[Len(messages')] = r
              /\ \A i \in 1..Len(messages) : messages[i]._id # r._id
              /\ r.processed = FALSE
              /\ r.processed_at = Unset
              /\ r.created_at = now
              /\ r.timestamp = IF b.timestamp # Unset THEN b.timestamp ELSE now
              /\ conn'[c].resp.body.message_id = r._id]_vars

\* a second message stored at time 1, one with a timestamp of its own and
\* one without
C6_Witness ==
    /\ Len(messages) = 2
    /\ \E c \in DOMAIN conn :
        /\ Answered(c, "POST /api/messages")
        /\ conn[c].resp.status = 201
        /\ conn[c].resp.body.received = messages[2]
        /\ messages[2].created_at = 1
    /\ \E i, j \in 1..2 :
        /\ messages[i].timestamp = messages[i].created_at
        /\ messages[j].timestamp # messages[j].created_at

\* a query with the default page whose filter keys, where given, are those
\* of the body
MatchingDefaultQuery(q, b) ==
    /\ q.sim_id \in {Absent, b.sim_id}
    /\ q.type \in {Absent, b.type}
    /\ q.limit = Unset /\ q.skip = Unset

\* in this step connection c, which holds the 201 answer to its POST
\* /api/messages, runs the page query of a GET /api/messages that matches
\* the posted body
ListsAfterIngest(c) ==
    /\ Answered(c, "POST /api/messages")
    /\ conn[c].resp.status = 201
    /\ conn'[c].pc = "count"
    /\ MatchingDefaultQuery(conn'[c].req.query, conn[c].req.body)

C8_ListOrderedByTimestampDesc ==
    \A c \in DOMAIN conn :
        Answered(c, "GET /api/messages")
        => \A i, j \in 1..Len(conn[c].resp.body.messages) :
            i < j => conn[c].resp.body.messages[i].timestamp
                        >= conn[c].resp.body.messages[j].timestamp

\* a response that lists a message before one inserted earlier, its
\* timestamp being the later one
C8_Witness ==
    \E c \in DOMAIN conn :
        /\ Answered(c, "GET /api/messages")
        /\ Len(conn[c].resp.body.messages) = 2
        /\ conn[c].resp.body.messages[1]._id > conn[c].resp.body.messages[2]._id
        /\ conn[c].resp.body.messages[1].timestamp
                > conn[c].resp.body.messages[2].timestamp

\* the positions of the stored messages that agree with every filter key the
\* query carries
MatchingPositions(q) ==
    {i \in 1..Len(messages) :
        /\ q.sim_id \in {Absent, "", messages[i].sim_id}
        /\ q.type \in {Absent, "", messages[i].type}}

\* the arrangements of these positions with timestamps non-increasing
DescendingArrangements(P) ==
    {a \in [1..Cardinality(P) -> P] :
        /\ \A i, j \in 1..Cardinality(P) : i # j => a[i] # a[j]
        /\ \A i, j \in 1..Cardinality(P) :
            i < j => messages[a[i]].timestamp >= messages[a[j]].timestamp}

\* the response is the part from (0-based) position lo up to, not
\* including, position hi of one such arrangement, with its length as count
\* and the number of matching messages as total
IsSliceResponse(body, q, lo, hi) ==
    LET P == MatchingPositions(q)
        n == Cardinality(P)
    IN /\ body.total = n
       /\ body.count = Len(body.messages)
       /\ \E a \in DescendingArrangements(P) :
            body.messages =
                [k \in 1..(IF Min(hi, n) > lo THEN Min(hi, n) - lo ELSE 0)
                    |-> messages[a[lo + k]]]

QuerySkip(q) == IF q.skip = Unset THEN 0 ELSE q.skip
QueryLimit(q) == IF q.limit = Unset THEN 100 ELSE q.limit

\* C9, as claimed: the response is the slice [skip, skip + limit) of the
\* matching messages in descending order of timestamp
C9_ListIsSlice ==
    \A c \in DOMAIN conn :
        Answered(c, "GET /api/messages")
        => LET q == conn[c].req.query
           IN IsSliceResponse(conn[c].resp.body, q,
                              QuerySkip(q), QuerySkip(q) + QueryLimit(q))

\* C9, amended: so it is for a limit of 1 or more; with limit = 0 the
\* response holds every matching message from position skip on
C9_ListIsSliceUnlessLimitZero ==
    \A c \in DOMAIN conn :
        Answered(c, "GET /api/messages")
        => LET q == conn[c].req.query
           IN IsSliceResponse(conn[c].resp.body, q, QuerySkip(q),
                    IF QueryLimit(q) = 0 THEN Len(messages)
                    ELSE QuerySkip(q) + QueryLimit(q))

\* a page of one message, the second of two
C9_Witness ==
    \E c \in DOMAIN conn :
        /\ Answered(c, "GET /api/messages")
        /\ conn[c].req.query.limit = 1 /\ conn[c].req.query.skip = 1
        /\ conn[c].resp.body.count = 1 /\ conn[c].resp.body.total = 2

\* C10, as claimed: PUT /api/messages/:id/processed with an id that no
\* stored message has is answered 404 and changes neither collection
C10_UnknownIdNotFound ==
    [][\A c \in DOMAIN conn :
        ( /\ Answers(c, "PUT /api/messages/:messageId/processed")
          /\ \A i \in 1..Len(messages) :
                messages[i]._id # conn'[c].req.messageId )
        => /\ conn'[c].resp.status = 404
           /\ messages' = messages
           /\ sim_cards' = sim_cards]_vars

\* in this step connection c answers a PUT /api/messages/:id/processed that
\* names a stored message
MarksStored(c) ==
    /\ Answers(c, "PUT /api/messages/:messageId/processed")
    /\ ById(messages, conn'[c].req.messageId) # {}

\* C11: PUT /api/messages/:id/processed on the id of a stored message is
\* answered 200 with the updated record; after it the message is processed
\* and its processed_at is set and not earlier than its created_at
C11_MarkProcessedStamps ==
    [][\A c \in DOMAIN conn :
        MarksStored(c)
        => LET data == conn'[c].resp.body.data
           IN /\ conn'[c].resp.status = 200
              /\ ById(messages', conn'[c].req.messageId) = {data}
              /\ data.processed = TRUE
              /\ data.processed_at # Unset
              /\ data.processed_at >= data.created_at]_vars

\* a message inserted at time 0 and marked at time 1, the answer carrying it
C11_Witness ==
    \E c \in DOMAIN conn :
        /\ Answered(c, "PUT /api/messages/:messageId/processed")
        /\ conn[c].resp.status = 200
        /\ conn[c].resp.body.data.created_at = 0
        /\ conn[c].resp.body.data.processed_at = 1
        /\ conn[c].resp.body.data \in ById(messages, conn[c].req.messageId)

\* C13: no step removes a stored message or changes its id, and no step
\* takes a processed flag from true back to false
C13_MessagesKeptProcessedMonotone ==
    [][/\ Len(messages') >= Len(messages)
       /\ \A i \in 1..Len(messages) :
            /\ messages'[i]._id = messages[i]._id
            /\ messages[i].processed => messages'[i].processed]_vars

\* a message marked at time 1, still stored and processed, beside a
\* message inserted at that time
C13_Witness ==
    /\ Len(messages) = 2
    /\ messages[1].processed
    /\ messages[1].processed_at = 1
    /\ messages[2].created_at = 1
    /\ \E c \in DOMAIN conn :
        /\ Answered(c, "PUT /api/messages/:messageId/processed")
        /\ conn[c].req.messageId = 1
        /\ conn[c].resp.status = 200

\* a message but for its processed and processed_at fields
Payload(m) ==
    [_id |-> m._id, sim_id |-> m.sim_id, type |-> m.type, from |-> m.from,
     to |-> m.to, message |-> m.message, timestamp |-> m.timestamp,
     metadata |-> m.metadata, created_at |-> m.created_at]

\* C14: no step changes the id, sim_id, type, from, to, message, timestamp,
\* metadata or created_at of a stored message; a PUT
\* /api/messages/:id/processed changes only the processed and processed_at
\* fields of the message it names, and leaves every other message and the
\* sim_cards collection as they were
C14_MarkProcessedFrame ==
    [][/\ \A i \in 1..Len(messages) :
            i <= Len(messages') /\ Payload(messages'[i]) = Payload(messages[i])
       /\ \A c \in DOMAIN conn :
            Answers(c, "PUT /api/messages/:messageId/processed")
            => /\ Len(messages') = Len(messages)
               /\ \A i \in 1..Len(messages) :
                    messages[i]._id # conn'[c].req.messageId
                    => messages'[i] = messages[i]
               /\ sim_cards' = sim_cards]_vars

\* the second of two messages marked, the first, of the same SIM or another,
\* left unprocessed, the message with the metadata among them
C14_Witness ==
    /\ Len(messages) = 2
    /\ ~messages[1].processed
    /\ messages[2].processed
    /\ \E i \in 1..2 : messages[i].metadata # NoObject
    /\ sim_cards = <<RegisteredSim>>
    /\ \E c \in DOMAIN conn :
        /\ Answered(c, "PUT /api/messages/:messageId/processed")
        /\ conn[c].req.messageId = 2
        /\ conn[c].resp.status = 200

\* C12: a PUT /api/messages/:id/processed that names a message already
\* processed is answered 200; the message stays processed, its processed_at
\* becomes the time of this call, and nothing else in the store changes
C12_RepeatRestamps ==
    [][\A c \in DOMAIN conn :
        ( /\ MarksStored(c)
          /\ \E m \in ById(messages, conn'[c].req.messageId) : m.processed )
        => /\ conn'[c].resp.status = 200
           /\ Len(messages') = Len(messages)
           /\ \A i \in 1..Len(messages) :
                messages'[i] =
                    IF messages[i]._id = conn'[c].req.messageId
                    THEN [messages[i] EXCEPT !.processed_at = now]
                    ELSE messages[i]
           /\ \A i \in 1..Len(messages') :
                messages'[i]._id = conn'[c].req.messageId
                => messages'[i].processed
           /\ sim_cards' = sim_cards]_vars

\* one connection marked a message at time 0 and the other marked it again
\* at time 1: the message carries the later stamp
C12_Witness ==
    \E c, d \in DOMAIN conn :
        /\ Answered(c, "PUT /api/messages/:messageId/processed")
        /\ Answered(d, "PUT /api/messages/:messageId/processed")
        /\ conn[c].req.messageId = conn[d].req.messageId
        /\ conn[c].resp.status = 200 /\ conn[d].resp.status = 200
        /\ conn[c].resp.body.data.processed_at = 0
        /\ conn[d].resp.body.data.processed_at = 1
        /\ conn[d].resp.body.data \in ById(messages, conn[d].req.messageId)

\* C16: a POST /api/sim-cards whose body lacks sim_id or phone_number is
\* answered 400 in the handler's first step, before the lookup and the
\* insert, and sim_cards is left as it was, also when a record of the body's
\* sim_id is stored (400, not 409)
C16_SimCardValidationFirst ==
    [][\A c \in DOMAIN conn :
        ( /\ conn'[c] # conn[c]
          /\ conn'[c].pc \in {"save", "done"}
          /\ conn'[c].req.route = "POST /api/sim-cards"
          /\ \/ conn'[c].req.body.sim_id = Absent
             \/ conn'[c].req.body.phone_number = Absent )
        => /\ conn[c].pc \in {"idle", "done"}
           /\ conn'[c].pc = "done"
           /\ conn'[c].resp.status = 400
           /\ sim_cards' = sim_cards]_vars

\* a registration without phone_number answered 400 while a record of its
\* sim_id is stored
C16_Witness ==
    \E c \in DOMAIN conn :
        /\ Answered(c, "POST /api/sim-cards")
        /\ conn[c].req.body.phone_number = Absent
        /\ conn[c].resp.status = 400
        /\ CardsOf(sim_cards, conn[c].req.body.sim_id) # {}

\* C15, as claimed: POST /api/simakohost/send-sms with one of sim_id, to,
\* message missing is answered 400, with the three of them there it is
\* answered 202 with a request record of status queued, and neither
\* collection changes
C15_SendSmsPresentQueued ==
    [][\A c \in DOMAIN conn :
        Answers(c, "POST /api/simakohost/send-sms")
        => LET b == conn'[c].req.body
           IN /\ IF Absent \in {b.sim_id, b.to, b.message}
                 THEN conn'[c].resp.status = 400
                 ELSE /\ conn'[c].resp.status = 202
                      /\ conn'[c].resp.body.request.status = "queued"
              /\ messages' = messages
              /\ sim_cards' = sim_cards]_vars

\* C15, amended: a key that is missing or empty counts as missing: with one
\* of sim_id, to, message missing or an empty string the request is answered
\* 400, with the three of them there and not empty it is answered 202 with a
\* request record of status queued; neither collection changes
C15_SendSmsNonEmptyQueued ==
    [][\A c \in DOMAIN conn :
        Answers(c, "POST /api/simakohost/send-sms")
        => LET b == conn'[c].req.body
           IN /\ IF {Absent, ""} \cap {b.sim_id, b.to, b.message} # {}
                 THEN conn'[c].resp.status = 400
                 ELSE /\ conn'[c].resp.status = 202
                      /\ conn'[c].resp.body.request.status = "queued"
                      /\ conn'[c].resp.body.request.sim_id = b.sim_id
                      /\ conn'[c].resp.body.request.to = b.to
                      /\ conn'[c].resp.body.request.message = b.message
              /\ messages' = messages
              /\ sim_cards' = sim_cards]_vars

\* a send-sms request queued while both collections hold records
C15_Witness ==
    \E c \in DOMAIN conn :
        /\ Answered(c, "POST /api/simakohost/send-sms")
        /\ conn[c].resp.status = 202
        /\ conn[c].resp.body.request.status = "queued"
        /\ messages # <<>> /\ sim_cards # <<>>

\* C20: POST /api/messages is answered by its body alone, 201 when the body
\* is valid, whether or not a SimCard of its sim_id is registered, and leaves
\* sim_cards as it was; no step of POST /api/sim-cards changes messages
C20_IngestAndRegisterApart ==
    [][\A c \in DOMAIN conn :
        /\ Answers(c, "POST /api/messages")
           => /\ conn'[c].resp.status =
                    IF MessageValidationError(conn'[c].req.body) = NoError
                    THEN 201 ELSE 400
              /\ sim_cards' = sim_cards
        /\ ( /\ conn'[c] # conn[c]
             /\ conn'[c].pc \in {"save", "done"}
             /\ conn'[c].req.route = "POST /api/sim-cards" )
           => messages' = messages]_vars

\* a message of a SIM that is not registered stored beside the record of
\* another SIM
C20_Witness ==
    \E c \in DOMAIN conn :
        /\ Answered(c, "POST /api/messages")
        /\ conn[c].resp.status = 201
        /\ CardsOf(sim_cards, conn[c].req.body.sim_id) = {}
        /\ sim_cards # <<>>
        /\ messages[Len(messages)].sim_id = conn[c].req.body.sim_id

\* in this step a store call of the handler running on connection c fails
StoreFails(c) ==
    \/ \E b \in ValidMessageBodies : PostMessageFails(c, b)
    \/ \E id \in PathIds : PutProcessedFails(c, id)
    \/ \E q \in Queries : GetMessagesFindFails(c, q)
    \/ GetMessagesCountFails(c)
    \/ GetSimCardsFails(c)
    \/ \E b \in ValidSimBodies : PostSimCardLookupFails(c, b)
    \/ PostSimCardSaveFails(c)

\* collection after is collection before, but for at most one record
\* appended or one record changed
AtMostOneWrite(before, after) ==
    \/ after = before
    \/ Len(after) = Len(before) + 1 /\ SubSeq(after, 1, Len(before)) = before
    \/ /\ Len(after) = Len(before)
       /\ Cardinality({i \in 1..Len(before) : after[i] # before[i]}) = 1

\* C18: when a store call fails in a handler, the request is answered 500
\* with the body {error: 'Internal server error'} and nothing else, the
\* handler ends there (no further store call, no retry), and the store is
\* as the failed call left it: at most its one write, in its one collection
C18_StoreFailureAnswered500 ==
    [][\A c \in DOMAIN conn :
        StoreFails(c)
        => /\ conn'[c].pc = "done"
           /\ conn'[c].resp =
                [status |-> 500, body |-> [error |-> "Internal server error"]]
           /\ AtMostOneWrite(messages, messages')
           /\ AtMostOneWrite(sim_cards, sim_cards')
           /\ messages' = messages \/ sim_cards' = sim_cards
           /\ conn[c].pc \in {"count", "save"}
                => conn'[c].req = conn[c].req]_vars

\* a list that a failed store call ended, answered 500 while both
\* collections hold records
C18_Witness ==
    \E c \in DOMAIN conn :
        /\ Answered(c, "GET /api/messages")
        /\ conn[c].resp.status = 500
        /\ messages # <<>> /\ sim_cards # <<>>

NotFoundResponse == [status |-> 404, body |-> [error |-> "Endpoint not found"]]

\* C17, as claimed: every request that matches no route is answered 404
\* {error: 'Endpoint not found'}
C17_UnmatchedNotFound ==
    \A c \in DOMAIN conn :
        (conn[c].pc = "done" /\ conn[c].req.route = "none")
        => conn[c].resp = NotFoundResponse

\* C17, amended: a request that matches no route is answered 404 {error:
\* 'Endpoint not found'} unless the middleware answers before the router is
\* done: 204 to an OPTIONS request (cors), 500 {error: 'Something went
\* wrong!'} when the body does not parse, 429 when the path is under /api/
\* and the limiter has counted 100 requests or more in the window
C17_UnmatchedNotFoundPastMiddleware ==
    [][\A c \in DOMAIN conn :
        ( /\ conn'[c] # conn[c]
          /\ conn'[c].pc = "done"
          /\ conn'[c].req.route = "none" )
        => LET r == conn'[c].req
           IN conn'[c].resp =
                IF r.method = "OPTIONS"
                THEN [status |-> 204, body |-> [text |-> ""]]
                ELSE IF r.body = "malformed"
                THEN [status |-> 500,
                      body |-> [error |-> "Something went wrong!"]]
                ELSE IF UnderApi(r.path) /\ Counted(c) >= RateLimitMax
                THEN [status |-> 429,
                      body |-> [text |->
                        "Too many requests, please try again later."]]
                ELSE NotFoundResponse]_vars

\* the hundredth request of the window, to a path under /api/ that no route
\* has, answered 404
C17_Witness ==
    /\ hits["a1"] = RateLimitMax
    /\ \E c \in DOMAIN conn :
        /\ conn[c].pc = "done"
        /\ conn[c].req.route = "none"
        /\ UnderApi(conn[c].req.path)
        /\ conn[c].req.method # "OPTIONS"
        /\ conn[c].resp = NotFoundResponse

\* a response without the times of its making
Timeless(resp) ==
    LET b == resp.body
    IN [status |-> resp.status,
        body |->
            IF "timestamp" \in DOMAIN b
            THEN [k \in DOMAIN b \ {"timestamp"} |-> b[k]]
            ELSE IF "request" \in DOMAIN b
            THEN [b EXCEPT !.request =
                    [k \in DOMAIN b.request \ {"created_at"} |-> b.request[k]]]
            ELSE b]

\* C19, as claimed: the store being the same, the answers to one request
\* are the same, times aside, whatever requests came before
C19_AnswerByRequestAndStore ==
    \A c, d \in DOMAIN conn :
        ( /\ conn[c].pc = "done" /\ conn[d].pc = "done"
          /\ conn[c].req = conn[d].req )
        => Timeless(conn[c].resp) = Timeless(conn[d].resp)

\* C19, amended: so it is unless the limiter refuses one of them: the
\* limiter keeps in memory the count of the client's requests to paths under
\* /api/ in the window, and answers 429, to such a request only, beyond max
C19_AnswerByRequestStoreAndLimiter ==
    \A c, d \in DOMAIN conn :
        /\ ( /\ conn[c].pc = "done" /\ conn[d].pc = "done"
             /\ conn[c].req = conn[d].req
             /\ conn[c].resp.status # 429 /\ conn[d].resp.status # 429 )
           => Timeless(conn[c].resp) = Timeless(conn[d].resp)
        /\ (conn[c].pc = "done" /\ conn[c].resp.status = 429)
           => /\ conn[c].req.route # "GET /health"
              /\ conn[c].req.route = "none" => UnderApi(conn[c].req.path)

\* two answers to one send-sms request, made at different times and the
\* same but for the time, over a store that holds a record
C19_Witness ==
    \E c, d \in DOMAIN conn :
        /\ conn[c].pc = "done" /\ conn[d].pc = "done"
        /\ conn[c].req = conn[d].req
        /\ conn[c].req.route = "POST /api/simakohost/send-sms"
        /\ conn[c].resp.status = 202
        /\ conn[c].resp # conn[d].resp
        /\ Timeless(conn[c].resp) = Timeless(conn[d].resp)
        /\ sim_cards # <<>>

\* C21: the pending connection attempt ends in one of two ways, connected
\* or, when it fails, the process exited with code 1; once the attempt has
\* failed no request is read or answered and the store is not used. (That
\* requests are read and answered while the attempt is pending is what the
\* witness shows.)
C21_FailFastStartup ==
    /\ [][(startup = "connecting" /\ startup' # startup)
            => startup' \in {"connected", Exited}]_vars
    /\ [][startup \notin {"connecting", "connected"}
            => /\ startup' = startup
               /\ conn' = conn
               /\ messages' = messages
               /\ sim_cards' = sim_cards]_vars

\* the process exited after it had answered a health check, with the store
\* reported as not connected, while the attempt was pending; a request for
\* the sim cards that arrived then is left without an answer
C21_Witness ==
    /\ startup = Exited
    /\ \E c, d \in DOMAIN conn :
        /\ conn[c].pc = "done"
        /\ conn[c].req.route = "GET /health"
        /\ conn[c].resp.body.mongodb = "disconnected"
        /\ conn[d].pc = "buffered"

\* the addresses of the connections of SpecLimiter
LimiterAddress(c) == IF c = "c1" THEN "a1" ELSE "a2"

\* C22: between two ends of an address's window the limiter's count of the
\* address only goes up, one by one, and a request to a path under /api/
\* reaches its handler, or the store, only as one of the first 100 counted:
\* at most 100 per window. A request beyond is answered 429 and leaves the
\* store as it was. GET /health is answered 200 whatever the count, and is
\* not counted. The requests of one address leave the count of the other
\* as it was, and are let through or refused by their own address's count
C22_RateLimitPerAddress ==
    [][/\ \A a \in Addresses :
            hits'[a] \in {hits[a], hits[a] + 1, 0}
       /\ \A c \in DOMAIN conn :
            LET a == LimiterAddress(c)
                answered == conn'[c] # conn[c] /\ conn'[c].pc = "done"
                stored == messages' # messages \/ sim_cards' # sim_cards
            IN /\ ( answered /\ conn'[c].req.route # "GET /health"
                             /\ conn'[c].resp.status # 429 )
                  => /\ hits[a] < RateLimitMax
                     /\ hits'[a] = hits[a] + 1
                     /\ \A o \in Addresses \ {a} : hits'[o] = hits[o]
               /\ stored => \E o \in Addresses :
                                hits[o] < RateLimitMax /\ hits'[o] = hits[o] + 1
               /\ ( answered /\ conn'[c].resp.status = 429 )
                  => /\ hits[a] >= RateLimitMax
                     /\ hits'[a] = hits[a] + 1
                     /\ \A o \in Addresses \ {a} : hits'[o] = hits[o]
                     /\ conn'[c].req.route # "GET /health"
                     /\ ~stored
               /\ ( answered /\ conn'[c].req.route = "GET /health" )
                  => /\ conn'[c].resp.status = 200
                     /\ hits' = hits]_vars

\* one address is over the limit and its request refused, the other
\* address's first request of the window is served and its message stored
C22_Witness ==
    /\ hits["a1"] > RateLimitMax
    /\ conn["c1"].pc = "done" /\ conn["c1"].resp.status = 429
    /\ hits["a2"] = 1
    /\ conn["c3"].pc = "done" /\ conn["c3"].resp.status = 201
    /\ conn["c3"].resp.body.received \in
            {messages[i] : i \in 1..Len(messages)}

\* C23: in every answer of GET /api/messages count is the length of the
\* page and is at most total, also when messages were ingested between the
\* handler's page query and its count query
C23_CountAtMostTotal ==
    \A c \in DOMAIN conn :
        ( conn[c].pc = "done" /\ conn[c].req.route = "GET /api/messages"
          /\ conn[c].resp.status = 200 )
        => /\ conn[c].resp.body.count = Len(conn[c].resp.body.messages)
           /\ conn[c].resp.body.count <= conn[c].resp.body.total

\* a list without filter, limit or skip answered with fewer messages than
\* total: a message was ingested between its two queries
C23_Witness ==
    \E c \in DOMAIN conn :
        /\ conn[c].pc = "done" /\ conn[c].req.route = "GET /api/messages"
        /\ conn[c].req.query = Query(Absent, Absent, Unset, Unset)
        /\ conn[c].resp.body.count >= 1
        /\ conn[c].resp.body.count < conn[c].resp.body.total

\* C24: a POST /api/messages whose body carries a key other than sim_id,
\* type, from, to, message, timestamp and metadata is answered 400 and
\* writes nothing; every message that enters the store enters it with
\* processed false and no processed_at, created at the server's time
C24_ServerFieldsNotSettable ==
    [][/\ \A c \in DOMAIN conn :
            ( Answers(c, "POST /api/messages")
              /\ conn'[c].req.body.extra # {} )
            => /\ conn'[c].resp.status = 400
               /\ messages' = messages
               /\ sim_cards' = sim_cards
       /\ messages' # messages
            => /\ Len(messages') = Len(messages) + 1
               /\ SubSeq(messages', 1, Len(messages)) = messages
               /\ messages'[Len(messages')].processed = FALSE
               /\ messages'[Len(messages')].processed_at = Unset
               /\ messages'[Len(messages')].created_at = now]_vars

\* a body that is valid but for a processed key is refused while the store
\* holds a message, and every message of the store is unprocessed
C24_Witness ==
    \E c \in DOMAIN conn :
        /\ Answered(c, "POST /api/messages")
        /\ "processed" \in conn[c].req.body.extra
        /\ MessageValidationError([conn[c].req.body EXCEPT !.extra = {}])
                = NoError
        /\ conn[c].resp.status = 400
        /\ messages # <<>>
        /\ \A i \in 1..Len(messages) : ~messages[i].processed

\* C25: a request that has reached its handler is in the end answered, and
\* answered once: no handler sends a second response, none sends one and
\* runs on, none ends without having sent one
C25_AnsweredOnce ==
    /\ [](\A c \in Clients :
            conn[c].pc # "idle"
            => /\ Len(conn[c].sent) <= 1
               /\ conn[c].pc = "ended" <=> Len(conn[c].sent) = 1)
    /\ \A c \in Clients :
            (conn[c].pc \notin {"idle", "ended"})
            ~> (conn[c].pc = "ended" /\ Len(conn[c].sent) = 1)

\* a registration that ended in the catch branch after its lookup had found
\* nothing, beside a mark-processed request answered 404 or 200
C25_Witness ==
    \E c, d \in DOMAIN conn :
        /\ At(c, "POST /api/sim-cards", "ended")
        /\ Len(conn[c].sent) = 1 /\ conn[c].sent[1].status = 500
        /\ At(d, "PUT /api/messages/:messageId/processed", "ended")
        /\ Len(conn[d].sent) = 1 /\ conn[d].sent[1].status \in {200, 404}

=============================================================================
